---- MODULE Spec2Model ----
(***************************************************************************)
(* Model of nse_stock_picker_pro: the per-symbol analysis (analyze), the   *)
(* command-line run (main) and the dashboard run (streamlit_app).          *)
(*                                                                         *)
(* Units.  Every price, indicator and oscillator value is an integer count *)
(* of thousandths (100.005 is 100005), so that round(x, 2) and round(x, 1) *)
(* have something to round.  Rounded prices are in hundredths, rounded     *)
(* RSI/ADX in tenths, RR in hundredths.  Multipliers with one decimal in   *)
(* the source (1.5, 0.5, 1.0, 2.0) are in tenths; MAX_RR (0.6) is in       *)
(* hundredths.  The arithmetic is exact (rationals), not binary floating   *)
(* point.                                                                  *)
(***************************************************************************)
EXTENDS Integers, Sequences, FiniteSets

VARIABLES
    \* ---- one call of analyze(ticker), stepped ----
    quote,          \* what the market-data source and the indicator library yield
    apc,            \* position inside analyze
    ares,           \* what analyze returned (None, a dict) or that it raised
    flags,          \* the ten local flags of analyze, once computed
    engineInvoked,  \* TRUE once any indicator has been computed
    \* ---- one run of a front end ----
    frontend,       \* "cli" (main) or "dashboard" (streamlit_app)
    pc,             \* position inside the run
    nsym,           \* length of the list fetch_nifty100_symbols returned
    idx,            \* number of symbols whose analyze call has returned
    picks,          \* the list `picks`
    shortlist,      \* the rows handed to the presentation layer
    outcome,        \* how the run ended
    zeroAtr         \* tickers analysed with >= 120 bars and ATR[t] = 0

avars == <<quote, apc, ares, flags, engineInvoked>>
rvars == <<frontend, pc, nsym, idx, picks, shortlist, outcome, zeroAtr>>
vars  == <<quote, apc, ares, flags, engineInvoked,
           frontend, pc, nsym, idx, picks, shortlist, outcome, zeroAtr>>

(***************************************************************************)
(* CONFIG block of nse_stock_picker_pro.py                                 *)
(***************************************************************************)
ADX_THRESH     == 20
VOL_MULT       == 15
BB_SQUEEZE_PCT == 5
ATR_STOP_MULT  == 10
ATR_TGT_MULT   == 20
MAX_RR         == 60
MIN_SCORE      == 6
TOP_N          == 5
\* literals of analyze
MIN_HISTORY    == 120
BB_AVG_WINDOW  == 120
BB_WINDOW      == 20
\* the dashboard's own literals
DASH_MIN_SCORE == 6
DASH_MAX_RR    == 60

(***************************************************************************)
(* Bounds of the model                                                     *)
(***************************************************************************)
MaxBars     == 140   \* longest downloaded frame
Margin      == 3     \* frames start this many rows below MIN_HISTORY
MaxNanRows  == 1     \* rows with a missing value in a frame
MaxUniverse == 6     \* longest symbol list

(***************************************************************************)
(* Floating point: NaN, comparisons with NaN, round()                      *)
(***************************************************************************)
NaN == -999999999

\* a < b, a > b, a <= b, a >= b of IEEE floats: FALSE when either side is NaN
Lt(a, b) == a # NaN /\ b # NaN /\ a < b
Gt(a, b) == a # NaN /\ b # NaN /\ a > b
Le(a, b) == a # NaN /\ b # NaN /\ a <= b
Ge(a, b) == a # NaN /\ b # NaN /\ a >= b

Abs(x) == IF x < 0 THEN -x ELSE x

\* num/den rounded to the nearest integer, ties to the even one (den > 0)
RoundHalfEven(num, den) ==
    LET q == num \div den
        r == num - q * den
    IN  IF 2 * r < den THEN q
        ELSE IF 2 * r > den THEN q + 1
        ELSE IF q % 2 = 0 THEN q ELSE q + 1

\* round(x, 2) and round(x, 1) of a value in thousandths; NaN stays NaN
Round2(x) == IF x = NaN THEN NaN ELSE RoundHalfEven(x, 10)
Round1(x) == IF x = NaN THEN NaN ELSE RoundHalfEven(x, 100)

(***************************************************************************)
(* Inputs of analyze: the frame yf.download returns and the values the     *)
(* indicator library computes from it at the last bar (and one bar back    *)
(* for RSI).                                                               *)
(*   fetch    "ok": a frame with the OHLCV columns; "malformed": a frame   *)
(*            without the Volume column; "error": the download raises      *)
(*   rawBars  rows of the frame; nanRows: rows dropna() removes            *)
(***************************************************************************)
Closes == {100000, 250005}

FrameLengths == {0} \cup ((MIN_HISTORY - Margin) .. MaxBars)

\* first length at which rolling(120).mean() of the Bollinger width is defined
FirstFullWindow == (BB_WINDOW - 1) + BB_AVG_WINDOW

\* e20, e50: EMA20 and EMA50 as an offset from the close, in thousandths of it;
\* mx, c5: the 20-bar maximum and the close five bars back, as offsets
MkQuote(f, raw, nan, c, e20, e50, ml, rp, r, v, a, t, w, mx, c5) ==
    [fetch |-> f, rawBars |-> raw, nanRows |-> nan,
     close |-> c,
     ema20 |-> c + (c * e20) \div 1000,
     ema50 |-> c + (c * e50) \div 1000,
     ema100 |-> c - c \div 100,
     macd_line |-> ml, macd_signal |-> 300,
     rsi_prev |-> rp, rsi |-> r,
     volume |-> v, vol_ma20 |-> 1000,
     adx |-> a, atr |-> t,
     bb_width |-> w, bb_width_avg |-> 80,
     close_max20 |-> c + mx, close_5ago |-> c + c5]

\* every frame shape, with a few indicator snapshots
FrameQuotes ==
    { MkQuote(f, raw, nan, 100000, -5, -4, 800, 48000, r, 2000, 25050, t, w, 0, -2000) :
        f \in {"ok", "malformed", "error"},
        raw \in FrameLengths, nan \in 0 .. MaxNanRows,
        r \in {40000, 58250}, t \in {0, 1500}, w \in {20, 60} }

\* every indicator snapshot, on the frames at the edges of the warm-up
IndicatorQuotes ==
    { MkQuote("ok", raw, 0, c, e20, e50, ml, rp, r, v, a, t, w, mx, c5) :
        raw \in {MIN_HISTORY, FirstFullWindow - 1, FirstFullWindow},
        c \in Closes,
        e20 \in {-5, 50},
        e50 \in {-4, -100},
        ml \in {-500, 800},
        rp \in {48000, 52000},
        r \in {40000, 58250, 70000},
        v \in {1000, 2000},
        a \in {15000, 25050},
        t \in {0, 1500, 2345},
        w \in {20, 60},
        mx \in {0, 1000},
        c5 \in {-2000, 2000} }

AllQuotes == { q \in FrameQuotes \cup IndicatorQuotes : q.nanRows <= q.rawBars }

(***************************************************************************)
(* analyze(ticker), lines 43-115                                           *)
(***************************************************************************)
None    == [kind |-> "None"]
Raised  == [kind |-> "raise"]
NoFlags == [i \in 1 .. 10 |-> FALSE]

\* len(df) after flatten_df(df).dropna()
UsableBars(q) == q.rawBars - q.nanRows

\* df.empty
FrameEmpty(q) == q.rawBars = 0

\* variant: the gate also rejects a frame of exactly MIN_HISTORY bars
TooShortOffByOne(q) == UsableBars(q) <= MIN_HISTORY

\* if len(df) < 120: return None
TooShort(q) == UsableBars(q) < MIN_HISTORY

\* the first bar (0-based) whose Bollinger width is defined: its 20-bar window is full
BBWidthFirstDefined == BB_WINDOW - 1

\* variant: min_periods = 1, the mean of whatever part of the window is defined
RollingMeanAnyDefined(n, window, first, value) ==
    IF \E i \in (n - window) .. (n - 1) : i >= 0 /\ i >= first THEN value ELSE NaN

\* s.rolling(window).mean()[today] over a series of n bars whose bars are defined
\* from bar `first` on: the mean `value` when all `window` bars are defined, else NaN
RollingMeanLast(n, window, first, value) ==
    IF Cardinality({i \in (n - window) .. (n - 1) : i >= 0 /\ i >= first}) >= window
    THEN value ELSE NaN

\* variant: the 120-bar mean taken with min_periods = 1
BBWidthAvgMinPeriodsOne(q) ==
    RollingMeanAnyDefined(UsableBars(q), BB_AVG_WINDOW, BBWidthFirstDefined, q.bb_width_avg)

\* bb_width.rolling(120).mean()[today]
BBWidthAvg(q) ==
    RollingMeanLast(UsableBars(q), BB_AVG_WINDOW, BBWidthFirstDefined, q.bb_width_avg)

\* lines 72-84: the local flags, in the order of the list summed at lines 87-98
f_close_above_ema20(q)  == Gt(q.close, q.ema20)
f_macd_line_cross_up(q) == Gt(q.macd_line, q.macd_signal)
f_rsi_band(q)           == Lt(45000, q.rsi) /\ Lt(q.rsi, 65000)
f_volume_surge(q)       == Gt(10 * q.volume, VOL_MULT * q.vol_ma20)
f_5d_momentum(q)        == Gt(q.close, q.close_5ago)
f_adx_trending(q)       == Gt(q.adx, ADX_THRESH * 1000)
f_bb_squeeze_break(q)   ==
    LET avg == BBWidthAvg(q)
    IN  avg # NaN /\ Gt(10 * q.bb_width, BB_SQUEEZE_PCT * avg)
f_rsi_mid_cross(q)      == Lt(q.rsi_prev, 50000) /\ Gt(q.rsi, 50000)
f_price_near_ema_cluster(q) ==
    /\ Lt(100 * Abs(q.close - q.ema20), q.close)
    /\ Lt(100 * Abs(q.close - q.ema50), q.close)
    /\ Lt(1000 * Abs(q.close - q.ema100), 15 * q.close)
f_breakout_20d_high(q)  == Ge(q.close, q.close_max20)

Flags(q) ==
    << f_close_above_ema20(q), f_macd_line_cross_up(q), f_rsi_band(q),
       f_volume_surge(q), f_5d_momentum(q), f_adx_trending(q),
       f_bb_squeeze_break(q), f_rsi_mid_cross(q), f_price_near_ema_cluster(q),
       f_breakout_20d_high(q) >>

RECURSIVE SumFlags(_, _)
SumFlags(fl, k) ==
    IF k = 0 THEN 0 ELSE SumFlags(fl, k - 1) + (IF fl[k] THEN 1 ELSE 0)

\* variant: the inline RSI-band term (third of the list) is left out of the sum
ScoreWithoutRsiBand(fl) == SumFlags(fl, Len(fl)) - (IF fl[3] THEN 1 ELSE 0)

\* lines 87-98: score = sum([...])
Score(fl) == SumFlags(fl, Len(fl))

\* lines 101-103
Stop(q)   == RoundHalfEven(10 * q.close - ATR_STOP_MULT * q.atr, 100)
Target(q) == RoundHalfEven(10 * q.close + ATR_TGT_MULT * q.atr, 100)
\* variant: reward over risk
RiskRewardInverted(q) ==
    IF ATR_STOP_MULT * q.atr = 0 THEN NaN
    ELSE RoundHalfEven(100 * (ATR_TGT_MULT * q.atr), ATR_STOP_MULT * q.atr)
\* variant: a zero ATR is masked by RR = 0 instead of giving NaN
RiskRewardMasked(q) ==
    IF ATR_TGT_MULT * q.atr = 0 THEN 0
    ELSE RoundHalfEven(100 * (ATR_STOP_MULT * q.atr), ATR_TGT_MULT * q.atr)
RiskReward(q) ==
    IF ATR_TGT_MULT * q.atr = 0 THEN NaN
    ELSE RoundHalfEven(100 * (ATR_STOP_MULT * q.atr), ATR_TGT_MULT * q.atr)

\* lines 105-115: the returned dict
Candidate(ticker, q) ==
    [kind |-> "dict",
     Ticker |-> ticker, Price |-> Round2(q.close), Score |-> Score(Flags(q)),
     RR |-> RiskReward(q), Target |-> Target(q), Stop |-> Stop(q),
     RSI |-> Round1(q.rsi), ADX |-> Round1(q.adx),
     VolSurge |-> f_volume_surge(q)]

\* the whole call
Analyze(ticker, q) ==
    IF q.fetch = "error" THEN Raised
    ELSE IF FrameEmpty(q) THEN None
    ELSE IF TooShort(q) THEN None
    ELSE IF q.fetch = "malformed" THEN Raised
    ELSE Candidate(ticker, q)

(***************************************************************************)
(* analyze, stepped: one call on one quote                                 *)
(***************************************************************************)
Pending == [kind |-> "pending"]

\* the state of the run's variables while no run is in progress
RunIdle ==
    /\ frontend = "none" /\ pc = "idle" /\ nsym = 0 /\ idx = 0
    /\ picks = <<>> /\ shortlist = <<>> /\ outcome = "none" /\ zeroAtr = {}

AInit ==
    /\ quote \in AllQuotes
    /\ apc = "download" /\ ares = Pending
    /\ flags = NoFlags /\ engineInvoked = FALSE
    /\ RunIdle

\* lines 44-47: yf.download, if df.empty: return None
Download ==
    /\ apc = "download"
    /\ IF quote.fetch = "error"
       THEN apc' = "raised" /\ ares' = Raised
       ELSE IF FrameEmpty(quote)
       THEN apc' = "returned" /\ ares' = None
       ELSE apc' = "gate" /\ ares' = ares
    /\ UNCHANGED <<quote, flags, engineInvoked>>
    /\ UNCHANGED rvars

\* lines 48-51: flatten_df(df).dropna(), if len(df) < 120: return None
LengthGate ==
    /\ apc = "gate"
    /\ IF TooShort(quote)
       THEN apc' = "returned" /\ ares' = None
       ELSE apc' = "indicators" /\ ares' = ares
    /\ UNCHANGED <<quote, flags, engineInvoked>>
    /\ UNCHANGED rvars

\* lines 53-68: the column selection (KeyError on a missing column), then the
\* indicator library
ComputeIndicators ==
    /\ apc = "indicators"
    /\ IF quote.fetch = "malformed"
       THEN apc' = "raised" /\ ares' = Raised /\ engineInvoked' = engineInvoked
       ELSE apc' = "score" /\ ares' = ares /\ engineInvoked' = TRUE
    /\ UNCHANGED <<quote, flags>>
    /\ UNCHANGED rvars

\* lines 70-115: flags, score, stop/target/RR, return
ScoreAndReturn ==
    /\ apc = "score"
    /\ flags' = Flags(quote)
    /\ ares' = Candidate(1, quote)
    /\ apc' = "returned"
    /\ UNCHANGED <<quote, engineInvoked>>
    /\ UNCHANGED rvars

ANext == Download \/ LengthGate \/ ComputeIndicators \/ ScoreAndReturn

SpecAnalyze == AInit /\ [][ANext]_vars

(***************************************************************************)
(* The runs: main() and the dashboard's button handler                     *)
(***************************************************************************)
\* the market data the runs draw from: two snapshots that qualify with the same
\* score (one on a volume surge, one on a trend), one with ATR = 0 that would
\* qualify on its score, one that scores too low, and the frames analyze does
\* not score (empty, one bar short, without the Volume column, download raising)
RunQuotes ==
    { MkQuote("ok", FirstFullWindow, 0, 100000, -5, -4, 800, 48000, 58250, 2000, 15000,
              1500, 60, 0, -2000),
      MkQuote("ok", FirstFullWindow, 0, 100000, -5, -4, 800, 48000, 58250, 1000, 25050,
              1500, 60, 0, -2000),
      MkQuote("ok", FirstFullWindow, 0, 100000, -5, -4, 800, 48000, 58250, 2000, 25050,
              0, 60, 0, -2000),
      MkQuote("ok", FirstFullWindow, 0, 100000, 50, -4, 800, 48000, 40000, 1000, 15000,
              1500, 60, 0, -2000),
      MkQuote("ok", 0, 0, 100000, -5, -4, 800, 48000, 58250, 2000, 25050,
              1500, 60, 0, -2000),
      MkQuote("ok", MIN_HISTORY - 1, 0, 100000, -5, -4, 800, 48000, 58250, 2000, 25050,
              1500, 60, 0, -2000),
      MkQuote("malformed", MIN_HISTORY, 0, 100000, -5, -4, 800, 48000, 58250, 2000, 25050,
              1500, 60, 0, -2000),
      MkQuote("error", 0, 0, 100000, -5, -4, 800, 48000, 58250, 2000, 25050,
              1500, 60, 0, -2000) }

\* variant: the gate checks the score alone
PassesGateScoreOnly(res) ==
    /\ res.kind = "dict"
    /\ Ge(res.Score, MIN_SCORE)

\* main, line 122: if res and res["Score"] >= MIN_SCORE and res["RR"] <= MAX_RR
PassesGate(res) ==
    /\ res.kind = "dict"
    /\ Ge(res.Score, MIN_SCORE)
    /\ Le(res.RR, MAX_RR)

\* dashboard, line 23: if res and res["Score"] >= 6 and res["RR"] <= 0.6
DashPassesGate(res) ==
    /\ res.kind = "dict"
    /\ Ge(res.Score, DASH_MIN_SCORE)
    /\ Le(res.RR, DASH_MAX_RR)

BoolRank(b) == IF b THEN 1 ELSE 0

\* main, line 130: sort_values(["Score","VolSurge","ADX"], ascending=[False]*3);
\* a sorts strictly before b
MainBefore(a, b) ==
    \/ a.Score > b.Score
    \/ a.Score = b.Score /\ BoolRank(a.VolSurge) > BoolRank(b.VolSurge)
    \/ a.Score = b.Score /\ a.VolSurge = b.VolSurge /\ a.ADX > b.ADX

\* dashboard, line 29: sort_values(["Score","ADX"], ascending=[False, False])
DashBefore(a, b) ==
    \/ a.Score > b.Score
    \/ a.Score = b.Score /\ a.ADX > b.ADX

\* DataFrame.sort_values on several keys is a stable sort: each row is put
\* before the first row it sorts strictly before.
\* main, line 130
MainInsert(s, x) ==
    LET later == {p \in 1 .. Len(s) : MainBefore(x, s[p])}
        at    == IF later = {} THEN Len(s) + 1
                 ELSE CHOOSE p \in later : \A r \in later : p <= r
    IN  SubSeq(s, 1, at - 1) \o <<x>> \o SubSeq(s, at, Len(s))

RECURSIVE MainSort(_)
MainSort(s) ==
    IF s = <<>> THEN <<>>
    ELSE MainInsert(MainSort(SubSeq(s, 1, Len(s) - 1)), s[Len(s)])

\* dashboard, line 29
DashInsert(s, x) ==
    LET later == {p \in 1 .. Len(s) : DashBefore(x, s[p])}
        at    == IF later = {} THEN Len(s) + 1
                 ELSE CHOOSE p \in later : \A r \in later : p <= r
    IN  SubSeq(s, 1, at - 1) \o <<x>> \o SubSeq(s, at, Len(s))

RECURSIVE DashSort(_)
DashSort(s) ==
    IF s = <<>> THEN <<>>
    ELSE DashInsert(DashSort(SubSeq(s, 1, Len(s) - 1)), s[Len(s)])

\* DataFrame.head(n)
HeadRows(s, n) == SubSeq(s, 1, IF Len(s) < n THEN Len(s) ELSE n)

\* main, lines 129-132
MainShortlist(p) == HeadRows(MainSort(p), TOP_N)

\* dashboard, lines 29-31
DashShortlist(p) == DashSort(p)

Gate(res) == IF frontend = "dashboard" THEN DashPassesGate(res) ELSE PassesGate(res)

AnalyzeIdle ==
    /\ quote = MkQuote("ok", 0, 0, 100000, -5, -4, 800, 48000, 58250, 2000, 25050,
                       1500, 60, 0, -2000)
    /\ apc = "idle" /\ ares = Pending /\ flags = NoFlags /\ engineInvoked = FALSE

Init ==
    /\ frontend \in {"cli", "dashboard"}
    /\ pc = "start" /\ nsym = 0 /\ idx = 0
    /\ picks = <<>> /\ shortlist = <<>> /\ outcome = "running" /\ zeroAtr = {}
    /\ AnalyzeIdle

\* fetch_nifty100_symbols(): main line 120, dashboard line 20.  The listing is
\* read, or pd.read_csv raises and the run ends there.
FetchUniverse ==
    /\ pc = "start"
    /\ \/ \E n \in 0 .. MaxUniverse :
            /\ nsym' = n /\ pc' = "loop" /\ outcome' = outcome
       \/ /\ nsym' = nsym /\ pc' = "done" /\ outcome' = "universe_error"
    /\ UNCHANGED <<frontend, idx, picks, shortlist, zeroAtr>>
    /\ UNCHANGED avars

\* one iteration of the loop: main lines 120-123, dashboard lines 21-24.
\* Nothing catches what analyze raises.
AnalyzeSymbol ==
    /\ pc = "loop" /\ idx < nsym
    /\ \E q \in RunQuotes :
         LET sym == idx + 1
             res == Analyze(sym, q)
         IN  /\ zeroAtr' = IF q.fetch = "ok" /\ ~TooShort(q) /\ q.atr = 0
                           THEN zeroAtr \cup {sym} ELSE zeroAtr
             /\ IF res.kind = "raise"
                THEN /\ pc' = "done" /\ outcome' = "symbol_error"
                     /\ UNCHANGED <<idx, picks>>
                ELSE /\ idx' = idx + 1
                     /\ picks' = IF Gate(res) THEN Append(picks, res) ELSE picks
                     /\ UNCHANGED <<pc, outcome>>
    /\ UNCHANGED <<frontend, nsym, shortlist>>
    /\ UNCHANGED avars

\* variant: the table is printed whether or not there are picks
MainEmptyNeverChecked(p) == FALSE
\* main, line 125: if not picks
MainEmpty(p) == p = <<>>

\* main, lines 125-136
MainRender ==
    /\ frontend = "cli" /\ pc = "loop" /\ idx = nsym
    /\ IF MainEmpty(picks)
       THEN shortlist' = <<>> /\ outcome' = "no_results"
       ELSE shortlist' = MainShortlist(picks) /\ outcome' = "table"
    /\ pc' = "done"
    /\ UNCHANGED <<frontend, nsym, idx, picks, zeroAtr>>
    /\ UNCHANGED avars

\* dashboard, lines 26-31
DashboardRender ==
    /\ frontend = "dashboard" /\ pc = "loop" /\ idx = nsym
    /\ IF picks = <<>>
       THEN shortlist' = <<>> /\ outcome' = "no_results"
       ELSE shortlist' = DashShortlist(picks) /\ outcome' = "table"
    /\ pc' = "done"
    /\ UNCHANGED <<frontend, nsym, idx, picks, zeroAtr>>
    /\ UNCHANGED avars

Next == FetchUniverse \/ AnalyzeSymbol \/ MainRender \/ DashboardRender

Spec == Init /\ [][Next]_vars

(***************************************************************************)
(* Properties                                                              *)
(***************************************************************************)
Rows(s) == {s[k] : k \in 1 .. Len(s)}
AnalyzeEnded == apc \in {"returned", "raised"}
RunEnded == pc = "done"

\* C1: every Candidate of the Shortlist (and of picks) has score >= 6 and
\* risk_reward <= 0.6, in the CLI run and in the dashboard run.
C1_ShortlistPassesGates ==
    \A c \in Rows(shortlist) \cup Rows(picks) :
        c.Score >= 6 /\ c.RR # NaN /\ c.RR <= 60

\* a rendered Shortlist of a run in which some analysed symbol was kept out
C1_Witness ==
    /\ RunEnded /\ outcome = "table" /\ shortlist # <<>>
    /\ Len(picks) < idx

\* C2: the Shortlist a run renders never has more than top_n (5) rows, in the
\* CLI run and in the dashboard run.
C2_ShortlistAtMostTopN == Len(shortlist) <= 5

\* C3: every adjacent pair (a, b) of the rendered Shortlist is in the order of
\* the three-key descending sort: a.score > b.score, or the scores are equal and
\* a.volume_surge >= b.volume_surge, and with both equal a.adx >= b.adx.
C3_ShortlistSorted ==
    \A k \in 1 .. Len(shortlist) - 1 :
        LET a == shortlist[k]
            b == shortlist[k + 1]
        IN  \/ a.Score > b.Score
            \/ /\ a.Score = b.Score
               /\ BoolRank(a.VolSurge) >= BoolRank(b.VolSurge)
               /\ (a.VolSurge = b.VolSurge => a.ADX >= b.ADX)

\* C4: a failing symbol never aborts the run: a run that got its universe ends
\* with every symbol of the universe analysed.
C4_SymbolFailureNeverAborts ==
    (RunEnded /\ outcome # "universe_error") =>
        (idx = nsym /\ outcome \in {"table", "no_results"})

\* C5: a series of fewer than 120 usable bars gives a skip and no indicator is
\* computed; 119 bars are skipped, 120 bars reach the indicators and give a
\* Candidate.
C5_LengthGate ==
    /\ (quote.fetch # "error" /\ quote.rawBars - quote.nanRows < 120) =>
          /\ ~engineInvoked
          /\ apc \notin {"indicators", "score"}
          /\ (AnalyzeEnded => ares = None)
    /\ (AnalyzeEnded /\ quote.fetch = "ok" /\ quote.rawBars - quote.nanRows >= 120) =>
          (ares.kind = "dict" /\ engineInvoked)

\* a frame of 120 rows, one of them with a missing value: 119 usable bars, skipped
C5_Witness ==
    /\ AnalyzeEnded /\ quote.fetch = "ok"
    /\ quote.rawBars = 120 /\ quote.nanRows = 1
    /\ ares = None /\ ~engineInvoked

\* the ten flags of a quote as the specification's section 4.2 defines them
SpecFlagSet(q) ==
    LET n == q.rawBars - q.nanRows
    IN  (IF q.close > q.ema20 THEN {"close_above_ema20"} ELSE {})
        \cup (IF q.macd_line > q.macd_signal THEN {"macd_bullish_cross"} ELSE {})
        \cup (IF 45000 < q.rsi /\ q.rsi < 65000 THEN {"rsi_neutral_band"} ELSE {})
        \cup (IF 2 * q.volume > 3 * q.vol_ma20 THEN {"volume_surge"} ELSE {})
        \cup (IF q.close > q.close_5ago THEN {"momentum_5d"} ELSE {})
        \cup (IF q.adx > 20000 THEN {"adx_trending"} ELSE {})
        \cup (IF n >= 139 /\ 2 * q.bb_width > q.bb_width_avg
              THEN {"bb_squeeze_breakout"} ELSE {})
        \cup (IF q.rsi_prev < 50000 /\ q.rsi > 50000 THEN {"rsi_midline_cross"} ELSE {})
        \cup (IF /\ 100 * Abs(q.close - q.ema20) < q.close
                 /\ 100 * Abs(q.close - q.ema50) < q.close
                 /\ 1000 * Abs(q.close - q.ema100) < 15 * q.close
              THEN {"price_near_ema_cluster"} ELSE {})
        \cup (IF q.close >= q.close_max20 THEN {"breakout_20d_high"} ELSE {})

\* C6: the score of every Candidate is an integer in [0,10], the number of TRUE
\* values among the ten flags, each flag counting 0 or 1.
C6_ScoreCountsFlags ==
    ares.kind = "dict" =>
        /\ ares.Score \in 0 .. 10
        /\ ares.Score = Cardinality({k \in DOMAIN flags : flags[k]})
        /\ ares.Score = Cardinality(SpecFlagSet(quote))

\* a Candidate with all ten flags TRUE
C6_Witness ==
    /\ ares.kind = "dict" /\ ares.Score = 10
    /\ \A k \in DOMAIN flags : flags[k]

\* C7: whenever ATR[t] > 0 the risk_reward is exactly
\* atr_stop_multiplier / atr_target_multiplier = 0.5, whatever the close and the ATR.
C7_RiskRewardConstant ==
    (ares.kind = "dict" /\ quote.atr > 0) =>
        /\ ares.RR * ATR_TGT_MULT = 100 * ATR_STOP_MULT
        /\ ares.RR = 50

\* a Candidate at the higher close with the larger ATR, whose stop is not 1/2 of
\* its target distance after rounding
C7_Witness ==
    /\ ares.kind = "dict" /\ ares.RR = 50
    /\ quote.close = 250005 /\ quote.atr = 2345

\* C8: a symbol with enough history and ATR[t] = 0 is never in picks nor in the
\* Shortlist, whatever its score, and the run does not abort on it.
C8_ZeroAtrSkipped ==
    /\ \A c \in Rows(picks) \cup Rows(shortlist) : c.Ticker \notin zeroAtr
    /\ outcome = "symbol_error" => (idx + 1) \notin zeroAtr

\* a run that met a zero-ATR symbol, went on to later symbols and rendered a table
C8_Witness ==
    /\ RunEnded /\ outcome = "table"
    /\ \E t \in zeroAtr : \E c \in Rows(shortlist) : c.Ticker > t

\* C9: an empty universe is analysed in no step and ends in the "no results"
\* state with an empty Shortlist, not in an error; and whenever the loop ends
\* with no pick the run reaches "no results", never a table.
C9_Safety ==
    /\ (RunEnded /\ nsym = 0 /\ outcome # "universe_error") =>
          (outcome = "no_results" /\ idx = 0 /\ shortlist = <<>>)
    /\ (RunEnded /\ idx = nsym /\ picks = <<>> /\ outcome # "universe_error") =>
          (outcome = "no_results" /\ shortlist = <<>>)
    /\ (outcome = "table" => shortlist # <<>>)
C9_EmptyResultEndsInNoResults ==
    /\ []C9_Safety
    /\ [][(pc = "loop" /\ idx = nsym /\ picks = <<>>)
            => (pc' = "done" /\ outcome' = "no_results" /\ shortlist' = <<>>)]_vars

\* a run over an empty universe that ended in "no results"
C9_Witness ==
    /\ RunEnded /\ nsym = 0 /\ idx = 0 /\ outcome = "no_results"

\* C10: an accepted series of 120 to 138 bars has no defined 120-bar mean of the
\* Bollinger width: bb_squeeze_breakout is FALSE, analyze still returns a
\* Candidate, and its score is at most 9.
C10_WarmUpMakesFlagFalse ==
    (AnalyzeEnded /\ quote.fetch = "ok"
        /\ quote.rawBars - quote.nanRows \in 120 .. 138) =>
        /\ ares.kind = "dict"
        /\ ~flags[7]
        /\ ares.Score <= 9

\* 138 bars, a width above half its would-be mean, and the other nine flags TRUE
C10_Witness ==
    /\ AnalyzeEnded /\ quote.rawBars - quote.nanRows = 138
    /\ 2 * quote.bb_width > quote.bb_width_avg
    /\ ares.kind = "dict" /\ ares.Score = 9 /\ ~flags[7]

\* the stepped analyze and the whole call agree
AnalyzeAgrees == AnalyzeEnded => ares = Analyze(1, quote)

====
